---- MODULE Spec2Model ----
(***************************************************************************)
(* The simulated chat session of src/src/app/alma/page.tsx (AlmaPage):     *)
(* the message list, the typing flag, the deferred reply scheduled by      *)
(* handleSendMessage with setTimeout, the reply generator and the scroll   *)
(* effect.  Time is the millisecond clock read by Date.now()/new Date().   *)
(***************************************************************************)
EXTENDS Integers, Sequences, FiniteSets

VARIABLES
    messages,        \* useState<Message[]>: the ordered message list
    isTyping,        \* useState(false): the typing flag
    timers,          \* setTimeout callbacks scheduled and not yet fired
    nextHandle,      \* handle the next setTimeout call returns (1, 2, ...)
    now,             \* the millisecond clock (Date.now(), new Date())
    mounted,         \* TRUE while the AlmaPage view is alive
    scrollCalls,     \* how many times scrollToBottom has been called
    staleUpdates,    \* state setter calls made on the disposed view
    queued,          \* state updates React has not rendered yet, in call order
    effectPending    \* TRUE while a committed render's effect has not run yet

vars == <<messages, isTyping, timers, nextHandle, now, mounted, scrollCalls,
          staleUpdates, queued, effectPending>>

---------------------------------------------------------------------------
(* Bounds of the exploration.                                              *)

\* Number of handleSendMessage calls explored in one behaviour.
MaxSubmits == 2

\* Time explored after the page was opened, in MinDelayMs steps; the clock
\* always advances further while a timer is still waiting.
MaxIdleSteps == 2

\* Date.now() when the page is opened.  Real values are about 1.7 * 10^12;
\* the model uses a value that fits TLC's integers and is, like every real
\* one, far above the greeting's id '1'.
StartTime == 1000000000

\* The texts the user submits.
Inputs == {"", "hola"}

---------------------------------------------------------------------------
(* Math.random() and number formatting.                                    *)

\* Math.random() returns a value in [0, 1); the model draws it in
\* thousandths.  RandomSamples select each of the five templates;
\* DelaySamples give the shortest and the longest delay.
RandomScale == 1000
RandomSamples == {0, 250, 500, 750, 999}
DelaySamples == {0, 999}

\* Number.prototype.toString(): the decimal digits of a non-negative integer.
Digit(d) == SubSeq("0123456789", d + 1, d + 1)

RECURSIVE NumberToString(_)
NumberToString(n) ==
    IF n < 10 THEN Digit(n)
    ELSE NumberToString(n \div 10) \o Digit(n % 10)

\* setTimeout delay: 1000 + Math.random() * 2000, truncated to whole ms.
MinDelayMs == 1000
DelaySpanMs == 2000
TimerDelay(r) == MinDelayMs + ((r * DelaySpanMs) \div RandomScale)

---------------------------------------------------------------------------
(* generateAlmaResponse                                                    *)

ResponseCount == 5

responses(userInput) == <<
    "Entiendo tu consulta sobre \"" \o userInput \o "\". Como ALMA, puedo ayudarte a analizar este tema desde diferentes perspectivas.",
    "Es una pregunta muy interesante. Basándome en mi conocimiento, puedo decirte que...",
    "Me parece un tema fascinante. Permíteme compartir contigo algunos insights sobre \"" \o userInput \o "\".",
    "Gracias por compartir eso conmigo. Como agente de IA, mi análisis sugiere que...",
    "Excelente pregunta. Desde mi perspectiva como ALMA, considero que este es un punto muy relevante."
>>

ClosingSentence == " ¿Te gustaría que profundice en algún aspecto específico?"

\* Math.floor(Math.random() * responses.length), as a 0-based index.
RandomIndex(r) == (r * ResponseCount) \div RandomScale

generateAlmaResponse(userInput, r) ==
    LET randomResponse == responses(userInput)[RandomIndex(r) + 1]
    IN  randomResponse \o ClosingSentence

---------------------------------------------------------------------------
(* Initial state: the values given to useState, and the first effect run.  *)

GreetingText ==
    "¡Hola! Soy ALMA, tu asistente de inteligencia artificial. ¿En qué puedo ayudarte hoy?"

\* Mutation: the session starts without the greeting.
NoInitialMessages == << >>

InitialMessages ==
    << [id |-> "1", content |-> GreetingText, role |-> "assistant",
        timestamp |-> StartTime] >>

Init ==
    /\ messages = InitialMessages
    /\ isTyping = FALSE
    /\ timers = {}
    /\ nextHandle = 1
    /\ now = StartTime
    /\ mounted = TRUE
    /\ scrollCalls = 1
    /\ staleUpdates = 0
    /\ queued = << >>
    /\ effectPending = FALSE

---------------------------------------------------------------------------
(* The scroll effect.                                                      *)

\* Mutation: useEffect(..., []) runs on mount only.
EffectRunsOnMountOnly(prev, next) == FALSE

\* useEffect(..., [messages]): the effect runs after a commit in which the
\* messages array is a different value.
EffectRuns(prev, next) == prev # next

\* The effect's body is one call of scrollToBottom, which scrolls the end
\* marker into view when the ref is set (messagesEndRef.current?.): the
\* number of calls the commit of prev -> next gives rise to.
ScrollToBottom(prev, next) == IF EffectRuns(prev, next) THEN 1 ELSE 0

\* React runs an effect still pending from an earlier commit before it
\* starts the next render: the number of calls that makes.
FlushedEffects == IF effectPending THEN 1 ELSE 0

---------------------------------------------------------------------------
(* handleSendMessage and its deferred callback.                            *)

\* Mutation: [m, ...prev] in place of [...prev, m].
PrependMessage(prev, m) == <<m>> \o prev

\* setMessages(prev => [...prev, m])
AppendMessage(prev, m) == Append(prev, m)

\* new Date(): the clock when the message object is built.
NewDate == now

\* The timers left when a callback has run: setTimeout fires once.
AfterFire(t) == timers \ {t}

\* Mutation: the submit forgets setIsTyping(true).
TypingNotSetOnSubmit == FALSE

\* setIsTyping(true) in handleSendMessage.
TypingAfterSubmit == TRUE

\* Mutation: the callback never clears the flag.
TypingNeverCleared == TRUE

\* setIsTyping(false) at the end of the callback.
TypingAfterResponse == FALSE

\* The queued updaters prev => [...prev, m], applied in the order of the
\* calls.
RECURSIVE ApplyUpdaters(_, _)
ApplyUpdaters(prev, q) ==
    IF q = << >> THEN prev
    ELSE ApplyUpdaters(AppendMessage(prev, Head(q).message), Tail(q))

\* The two setter calls of handleSendMessage, setMessages(updater) and
\* setIsTyping(newTyping), made in an event handler.  On a mounted view
\* they are rendered in one batch before the handler's task ends; that
\* render takes the updates of a timer callback that are still waiting
\* too, ahead of the handler's in call order, and the effect runs with
\* it.  On a disposed view the calls are made and change nothing.
SetState(m, newTyping) ==
    IF mounted
    THEN /\ messages' = AppendMessage(ApplyUpdaters(messages, queued), m)
         /\ isTyping' = newTyping
         /\ queued' = << >>
         /\ scrollCalls' = scrollCalls + FlushedEffects
                              + ScrollToBottom(messages, messages')
         /\ effectPending' = FALSE
         /\ UNCHANGED staleUpdates
    ELSE /\ staleUpdates' = staleUpdates + 2
         /\ UNCHANGED <<messages, isTyping, queued, scrollCalls,
                        effectPending>>

\* The two setter calls of the timer callback, setMessages(updater) and
\* setIsTyping(newTyping).  They return without changing what the
\* component sees: on a mounted view the update waits for a later render;
\* on a disposed view the calls are made and change nothing.
QueueState(m, newTyping) ==
    /\ IF mounted
       THEN /\ queued' = Append(queued, [message |-> m,
                                         typing |-> newTyping])
            /\ UNCHANGED staleUpdates
       ELSE /\ staleUpdates' = staleUpdates + 2
            /\ UNCHANGED queued
    /\ UNCHANGED <<messages, isTyping, scrollCalls, effectPending>>

handleSendMessage(content) ==
    /\ nextHandle <= MaxSubmits
    /\ LET userMessage == [id |-> NumberToString(now), content |-> content,
                           role |-> "user", timestamp |-> NewDate]
       IN  /\ SetState(userMessage, TypingAfterSubmit)
           /\ \E r \in DelaySamples :
                timers' = timers \cup
                    {[handle |-> nextHandle, due |-> now + TimerDelay(r),
                      content |-> content]}
           /\ nextHandle' = nextHandle + 1
    /\ UNCHANGED <<now, mounted>>

\* The callback given to setTimeout.  It runs whether or not the view is
\* still mounted: the source neither clears the timer nor tests for
\* disposal.  It builds the reply and makes the two setter calls.
AlmaCallback(t) ==
    /\ \E r \in RandomSamples :
         LET almaResponse ==
                 [id |-> NumberToString(now + 1),
                  content |-> generateAlmaResponse(t.content, r),
                  role |-> "assistant", timestamp |-> NewDate]
         IN  QueueState(almaResponse, TypingAfterResponse)
    /\ timers' = AfterFire(t)
    /\ UNCHANGED <<nextHandle, now, mounted>>

\* The event loop runs a timer's callback once its delay has elapsed.
TimerFire == \E t \in timers : t.due <= now /\ AlmaCallback(t)

\* The render that follows a timer callback, in a later task of the event
\* loop: every queued update is applied in one batch, in call order, and
\* the typing flag takes the value of the last setIsTyping call.  The
\* commit leaves the effect to a later task.
Render ==
    /\ mounted
    /\ queued # << >>
    /\ messages' = ApplyUpdaters(messages, queued)
    /\ isTyping' = queued[Len(queued)].typing
    /\ queued' = << >>
    /\ scrollCalls' = scrollCalls + FlushedEffects
    /\ effectPending' = EffectRuns(messages, messages')
    /\ UNCHANGED <<timers, nextHandle, now, mounted, staleUpdates>>

\* The effect of a committed render, run in a task after the commit.
RunEffect ==
    /\ mounted
    /\ effectPending
    /\ scrollCalls' = scrollCalls + 1
    /\ effectPending' = FALSE
    /\ UNCHANGED <<messages, isTyping, timers, nextHandle, now, mounted,
                   staleUpdates, queued>>

---------------------------------------------------------------------------
(* The view: ChatInput, disposal, and the passage of time.                 *)

\* Mutation: the disabled prop is not passed to ChatInput.
ChatInputNeverDisabled == FALSE

\* <ChatInput onSendMessage={handleSendMessage} disabled={isTyping} />
ChatInputDisabled == isTyping

\* ChatInput sends only while it is rendered and not disabled.
ChatInputAccepts == mounted /\ ~ChatInputDisabled

ChatInputSend == \E s \in Inputs : ChatInputAccepts /\ handleSendMessage(s)

\* handleSendMessage called from an event handler by a holder of the
\* onSendMessage prop that does not look at `disabled`.
DirectSend == \E s \in Inputs : handleSendMessage(s)

\* The view is disposed (navigation away from /alma).  No cleanup runs, so
\* the timers stay; updates still waiting for a render are never rendered.
\* An effect still pending runs before the render that removes the view.
Unmount ==
    /\ mounted
    /\ mounted' = FALSE
    /\ queued' = << >>
    /\ scrollCalls' = scrollCalls + FlushedEffects
    /\ effectPending' = FALSE
    /\ UNCHANGED <<messages, isTyping, timers, nextHandle, now,
                   staleUpdates>>

\* The clock is sampled: it advances by one millisecond from a whole
\* MinDelayMs offset while no timer is waiting, and by MinDelayMs from
\* anywhere.
TickSteps == {1, MinDelayMs}

OnWholeStep == ((now - StartTime) % MinDelayMs) = 0

Tick ==
    \E d \in TickSteps :
        /\ d = 1 => (OnWholeStep /\ timers = {})
        /\ \/ now + d <= StartTime + MaxIdleSteps * MinDelayMs
           \/ \E t \in timers : t.due > now
        /\ now' = now + d
        /\ UNCHANGED <<messages, isTyping, timers, nextHandle, mounted,
                       scrollCalls, staleUpdates, queued, effectPending>>

Next ==
    ChatInputSend \/ TimerFire \/ Render \/ RunEffect \/ Tick \/ Unmount

Spec == Init /\ [][Next]_vars

\* A task of the event loop that is ready to run: a due timer's callback,
\* a pending render or a pending effect.
RunTask == TimerFire \/ Render \/ RunEffect

\* The event loop keeps running: the clock advances and ready tasks are run.
LiveSpec == Spec /\ WF_vars(Tick) /\ WF_vars(RunTask)

NextDirect ==
    DirectSend \/ TimerFire \/ Render \/ RunEffect \/ Tick \/ Unmount

SpecDirect == Init /\ [][NextDirect]_vars

---------------------------------------------------------------------------
(* Properties.                                                             *)

\* String.prototype.includes: n occurs in h as a contiguous substring.
Contains(h, n) ==
    \E i \in 0..(Len(h) - Len(n)) : SubSeq(h, i + 1, i + Len(n)) = n

\* The replies generateAlmaResponse can produce for the text s.
Replies(s) == { responses(s)[k] \o ClosingSentence : k \in 1..ResponseCount }

\* A step in which handleSendMessage ran: it made a setTimeout call.
SubmitStep == nextHandle' # nextHandle

\* C1 as stated: in every reachable state of a chat session (the view is
\* alive) isTyping is true iff exactly one deferred callback is
\* outstanding, and at most one deferred callback is outstanding.
C1_TypingIffOneOutstanding ==
    /\ mounted => (isTyping <=> (Cardinality(timers) = 1))
    /\ Cardinality(timers) <= 1

\* C1 as amended: in every reachable state of a chat session (the view is
\* alive) isTyping is true iff exactly one deferred response is under way:
\* its callback is outstanding, or has fired and its update is not yet
\* rendered; and at most one deferred callback is outstanding.
C1_TypingIffOneUnderWay ==
    /\ mounted => (isTyping <=> (Cardinality(timers) + Len(queued) = 1))
    /\ Cardinality(timers) <= 1

C1_Witness ==
    mounted /\ isTyping /\ timers = {} /\ Len(queued) = 1 /\ Len(messages) = 4

\* C2: a handleSendMessage call made while isTyping is true leaves the
\* messages sequence unchanged.
C2_SubmitWhileTypingRejected ==
    [][(isTyping /\ SubmitStep) => messages' = messages]_vars

\* C3: once the view is disposed the pending callback is suppressed: it
\* makes no update on the disposed view, and neither messages nor isTyping
\* changes again.
C3_SuppressedAfterDispose ==
    [][(~mounted) =>
          /\ staleUpdates' = staleUpdates
          /\ messages' = messages
          /\ isTyping' = isTyping
      ]_vars

\* C4, the submit: it happens with isTyping false, appends exactly one user
\* message carrying the submitted text, and sets isTyping.
C4_Submit ==
    [][SubmitStep =>
        /\ ~isTyping /\ isTyping'
        /\ Len(messages') = Len(messages) + 1
        /\ SubSeq(messages', 1, Len(messages)) = messages
        /\ messages'[Len(messages')].role = "user"
        /\ messages'[Len(messages')].content \in Inputs
        /\ \E t \in timers' \ timers :
              t.content = messages'[Len(messages')].content
      ]_vars

\* C4, in between: while isTyping holds, a step either leaves the session
\* as it is or appends exactly one assistant message and clears isTyping.
C4_Between ==
    [][isTyping =>
        \/ (messages' = messages /\ isTyping')
        \/ /\ ~isTyping'
           /\ Len(messages') = Len(messages) + 1
           /\ SubSeq(messages', 1, Len(messages)) = messages
           /\ messages'[Len(messages')].role = "assistant"
      ]_vars

\* C4, the response: unless the view is disposed, the typing state is
\* eventually left; by C4_Between the step that leaves it appends exactly
\* one assistant message.
C4_Eventually == (isTyping /\ mounted) ~> (~isTyping \/ ~mounted)

\* C4: a submit in the Idle state appends exactly one user message with the
\* submitted text and sets isTyping; while the view stays alive and under
\* a fair timer exactly one assistant message is eventually appended and
\* isTyping becomes false;
\* isTyping is true at every state in between.
C4_SubmitThenResponse == C4_Submit /\ C4_Between /\ C4_Eventually

C4_Witness ==
    /\ ~isTyping /\ mounted /\ Len(messages) = 3
    /\ messages[2].role = "user" /\ messages[2].content = "hola"
    /\ messages[3].role = "assistant"

\* C5: the reply to submit(s) is one of the five templates followed by
\* the closing sentence, and every template interpolates s, so the reply
\* contains the text of the submit it answers.
C5_ReplyContainsInput ==
    \A i \in 2..Len(messages) :
        messages[i].role = "assistant" =>
            /\ messages[i].content \in Replies(messages[i - 1].content)
            /\ Contains(messages[i].content, messages[i - 1].content)

\* C6, ordering: every reply stands right after the user message it
\* answers, and a pending callback belongs to the last message, a user's.
C6_Order ==
    /\ \A i \in 2..Len(messages) :
          messages[i].role = "assistant" =>
              /\ messages[i - 1].role = "user"
              /\ messages[i].content \in Replies(messages[i - 1].content)
    /\ \A t \in timers :
          /\ messages[Len(messages)].role = "user"
          /\ messages[Len(messages)].content = t.content

\* C6: the user message of each submit is at a strictly smaller index than
\* the assistant message generated for it, and no submit is processed
\* while the response to an earlier submit is pending.
C6_UserBeforeReply ==
    /\ C6_Order
    /\ [][C6_Order' /\ (SubmitStep => (timers = {} /\ queued = << >>))]_vars

C6_Witness ==
    /\ Len(messages) = 5 /\ timers = {}
    /\ messages[4].role = "user" /\ messages[5].role = "assistant"

\* C7: all messages of the session have pairwise distinct ids.
C7_DistinctIds ==
    \A i, j \in 1..Len(messages) :
        i # j => messages[i].id # messages[j].id

\* C8: the messages sequence is chronologically ordered:
\* messages[i].timestamp <= messages[i+1].timestamp for every i.
C8_Chronological ==
    \A i \in 1..(Len(messages) - 1) :
        messages[i].timestamp <= messages[i + 1].timestamp

C8_Witness ==
    /\ Len(messages) = 5
    /\ messages[2].timestamp < messages[3].timestamp
    /\ messages[3].timestamp < messages[4].timestamp

\* C9: the initial state of a session, the one in which no submit has been
\* made, has exactly one message, the assistant's greeting, isTyping false
\* and no deferred callback outstanding.
C9_InitialState ==
    nextHandle = 1 =>
        /\ Len(messages) = 1
        /\ messages[1].role = "assistant"
        /\ messages[1].content = GreetingText
        /\ ~isTyping
        /\ timers = {}

C9_Witness ==
    nextHandle = 1 /\ now = StartTime /\ mounted /\ Len(messages) = 1

\* C10, the trigger: a step that changes messages or isTyping calls
\* scrollToBottom for that change, or leaves the call pending.
C10_Triggered ==
    [][(messages' # messages \/ isTyping' # isTyping) =>
          \/ effectPending'
          \/ scrollCalls' = scrollCalls + FlushedEffects + 1
      ]_vars

\* C10, the pending call: it is never dropped (a step that ends or
\* replaces it makes the call), and it belongs to a live view, so the task
\* that makes it is ready to run.
C10_NotDropped ==
    /\ effectPending => mounted
    /\ [][/\ effectPending' => mounted'
          /\ (effectPending /\ (~effectPending' \/ messages' # messages))
                => scrollCalls' > scrollCalls
        ]_vars

\* C10, the call: under a running event loop a pending call is made.
C10_Eventually == effectPending ~> ~effectPending

\* C10: there is no transition that changes isTyping or messages without
\* triggering scrollToBottom: the call is made in the step of the change,
\* or it is left pending by it and made in a later task.
C10_ScrollOnChange == C10_Triggered /\ C10_NotDropped /\ C10_Eventually

C10_Witness ==
    /\ effectPending /\ mounted /\ ~isTyping
    /\ Len(messages) = 3 /\ scrollCalls = 2

====
